---- MODULE Spec2Model ----
(***************************************************************************)
(* Model of the executable snippets of clean-code-javascript (src/index.js).*)
(*                                                                         *)
(* The repository is a collection of independent "Bad"/"Good" examples.    *)
(* It contains no rule registry, checker engine, parser adapter or         *)
(* reporter: none of register, disable, enable, activeRules, check or an   *)
(* exit-status computation occurs anywhere in src/.  The model therefore   *)
(* covers the stateful examples the source does contain, starting with the *)
(* two makeBankAccount factories of "Use getters and setters".             *)
(***************************************************************************)
EXTENDS Integers, Sequences, FiniteSets, TLC

\* Largest amount passed to setBalance / assigned to account.balance.
MaxAmount == 4

Amounts == 0..MaxAmount

\* JavaScript values are tagged: the number n, or undefined.
Num(n) == [t |-> "number", v |-> n]

Undefined == [t |-> "undefined"]

\* A function value, named after the function it is.
Fn(name) == [t |-> "function", v |-> name]

\* The slot of a property the object does not have.
Absent == [t |-> "absent"]

\* The outcome of calling something that is not a function.
TypeError == [t |-> "TypeError"]

VARIABLES
    balance,      \* Good makeBankAccount: the closure variable `let balance`
    badAccount,   \* Bad makeBankAccount: the returned object { balance: 0 }
    returned,     \* the value returned by the last getBalance() call
    goodAccount,  \* Good makeBankAccount: the returned object, property -> value
    lastSet,      \* the amount of the most recent account.setBalance(amount) call
    accessorsTouched  \* a getBalance/setBalance property was assigned or deleted

accountVars ==
    <<balance, badAccount, returned, goodAccount, lastSet, accessorsTouched>>

Numbers == {Num(n) : n \in Amounts}

\* Property names used on the Good account object.
PropNames == {"getBalance", "setBalance", "balance"}

\* Values a caller assigns to a property of the returned object.
AssignValues ==
    {Num(0), Num(MaxAmount), Fn("getBalance"), Fn("setBalance"), Fn("other")}

\* Bad makeBankAccount(): returns the object literal { balance: 0 }.
makeBankAccountBad == [balance |-> Num(0)]

\* Good makeBankAccount(): `let balance = 0` in the closure.
makeBankAccountGood == Num(0)

\* Good makeBankAccount(): the returned object { getBalance, setBalance }.
makeBankAccountObject ==
    [p \in PropNames |->
        IF p \in {"getBalance", "setBalance"} THEN Fn(p) ELSE Absent]

\* Good getBalance(): return balance.
getBalance(b) == b

\* A setBalance that forgets the assignment.
setBalanceDropped(b, amount) == b

\* Good setBalance(amount): balance = amount.
setBalance(b, amount) == amount

\* The closure's balance after calling the value f with argument arg:
\* only the closure's own setBalance writes it.
BalanceAfterCall(f, b, arg) ==
    IF f = Fn("setBalance") THEN setBalance(b, arg) ELSE b

\* The result of calling the value f: getBalance returns the balance,
\* the other functions return undefined, anything else is not callable.
ResultOfCall(f, b) ==
    IF f = Fn("getBalance") THEN getBalance(b)
    ELSE IF f.t = "function" THEN Undefined
    ELSE TypeError

\* account.setBalance(amount): calls whatever the setBalance property holds.
SetBalance ==
    \E amount \in Amounts :
        /\ balance' = BalanceAfterCall(goodAccount["setBalance"], balance, Num(amount))
        /\ lastSet' = Num(amount)
        /\ UNCHANGED <<badAccount, returned, goodAccount, accessorsTouched>>

\* account.getBalance(): calls whatever the getBalance property holds,
\* with no argument.
GetBalance ==
    /\ returned' = ResultOfCall(goodAccount["getBalance"], balance)
    /\ balance' = BalanceAfterCall(goodAccount["getBalance"], balance, Undefined)
    /\ UNCHANGED <<badAccount, goodAccount, lastSet, accessorsTouched>>

\* account.balance = v on the Bad account: the field is written directly.
AssignBadBalance ==
    \E v \in Amounts :
        /\ badAccount' = [badAccount EXCEPT !.balance = Num(v)]
        /\ UNCHANGED <<balance, returned, goodAccount, lastSet, accessorsTouched>>

\* account[p] = v on the Good account: an ordinary object, so the property
\* is created or overwritten; the closure variable is out of reach.
AssignGoodProp ==
    \E p \in PropNames, v \in AssignValues :
        /\ goodAccount' = [goodAccount EXCEPT ![p] = v]
        /\ accessorsTouched' = (accessorsTouched \/ p \in {"getBalance", "setBalance"})
        /\ UNCHANGED <<balance, badAccount, returned, lastSet>>

\* delete account[p] on the Good account.
DeleteGoodProp ==
    \E p \in PropNames :
        /\ goodAccount' = [goodAccount EXCEPT ![p] = Absent]
        /\ accessorsTouched' = (accessorsTouched \/ p \in {"getBalance", "setBalance"})
        /\ UNCHANGED <<balance, badAccount, returned, lastSet>>

\* C18 as stated: account.getBalance() returns the amount of the most recent
\* setBalance (0 if none), whatever was assigned to or deleted from the
\* returned object.
C18_AnyPropertyWrite ==
    ResultOfCall(goodAccount["getBalance"], balance) = lastSet

\* C18 amended: as long as the getBalance and setBalance properties themselves
\* have not been assigned or deleted, account.getBalance() returns the amount
\* of the most recent setBalance (0 if none), whatever other property of the
\* returned object was assigned or deleted.
C18_PrivateBalance ==
    ~accessorsTouched =>
        ResultOfCall(goodAccount["getBalance"], balance) = lastSet

\* A balance was set and read back while account.balance held another number.
C18_Witness ==
    /\ ~accessorsTouched
    /\ lastSet = Num(MaxAmount)
    /\ returned = Num(MaxAmount)
    /\ goodAccount["balance"] = Num(0)

(***************************************************************************)
(* Liskov substitution, "Bad" example: Rectangle, Square extends Rectangle *)
(* and renderLareRectangles (src/index.js 1595-1644).                      *)
(***************************************************************************)

\* Longest `rectangles` array passed to renderLareRectangles.
MaxRectangles == 3

\* The arguments of rectangle.setWidth(4) and rectangle.setHeight(5).
LargeWidth == 4

LargeHeight == 5

VARIABLES
    rectangles,   \* the array argument: objects [cls, width, height]
    rectIdx,      \* forEach position (1-based); Len+1 when the loop is over
    rectPc,       \* next statement of the forEach callback, or "done"
    area,         \* the callback's `const area`
    rendered      \* the arguments of the rectangle.render(area) calls so far

lspVars == <<rectangles, rectIdx, rectPc, area, rendered>>

Classes == {"Rectangle", "Square"}

\* Methods each class body defines itself.  Square defines setWidth and
\* setHeigh (sic); it does not define setHeight.
RectangleMethods == {"setColor", "render", "setWidth", "setHeight", "getArea"}

SquareMethods == {"setWidth", "setHeigh"}

\* Prototype-chain lookup: the class whose method body runs for obj.m().
ResolveMethod(cls, m) ==
    IF cls = "Square" /\ m \in SquareMethods THEN "Square"
    ELSE IF m \in RectangleMethods THEN "Rectangle"
    ELSE "none"

\* new Rectangle() / new Square(): the inherited constructor zeroes both.
NewRectangle(cls) == [cls |-> cls, width |-> 0, height |-> 0]

RectangleSetWidth(o, width) == [o EXCEPT !.width = width]

RectangleSetHeight(o, height) == [o EXCEPT !.height = height]

SquareSetWidth(o, width) == [o EXCEPT !.width = width, !.height = width]

SquareSetHeigh(o, height) == [o EXCEPT !.width = height, !.height = height]

RectangleGetArea(o) == o.width * o.height

\* obj.setWidth(w), dispatched through the prototype chain.
CallSetWidth(o, w) ==
    IF ResolveMethod(o.cls, "setWidth") = "Square"
    THEN SquareSetWidth(o, w)
    ELSE RectangleSetWidth(o, w)

\* obj.setHeight(h), dispatched through the prototype chain.
CallSetHeight(o, h) ==
    IF ResolveMethod(o.cls, "setHeight") = "Square"
    THEN SquareSetHeigh(o, h)
    ELSE RectangleSetHeight(o, h)

CallGetArea(o) == RectangleGetArea(o)

RectangleArrays ==
    UNION {[1..n -> {NewRectangle(c) : c \in Classes}] : n \in 0..MaxRectangles}

\* renderLareRectangles(rectangles) is entered with freshly built objects.
InitLSP ==
    /\ rectangles \in RectangleArrays
    /\ rectIdx = 1
    /\ rectPc = IF Len(rectangles) = 0 THEN "done" ELSE "setWidth"
    /\ area = 0
    /\ rendered = <<>>

\* The state of this example while another example runs.
IdleLSP ==
    /\ rectangles = <<>>
    /\ rectIdx = 1
    /\ rectPc = "done"
    /\ area = 0
    /\ rendered = <<>>

\* rectangle.setWidth(4);
StepSetWidth ==
    /\ rectPc = "setWidth"
    /\ rectangles' = [rectangles EXCEPT ![rectIdx] = CallSetWidth(@, LargeWidth)]
    /\ rectPc' = "setHeight"
    /\ UNCHANGED <<rectIdx, area, rendered>>

\* rectangle.setHeight(5);
StepSetHeight ==
    /\ rectPc = "setHeight"
    /\ rectangles' = [rectangles EXCEPT ![rectIdx] = CallSetHeight(@, LargeHeight)]
    /\ rectPc' = "getArea"
    /\ UNCHANGED <<rectIdx, area, rendered>>

\* const area = rectangle.getArea();
StepGetArea ==
    /\ rectPc = "getArea"
    /\ area' = CallGetArea(rectangles[rectIdx])
    /\ rectPc' = "render"
    /\ UNCHANGED <<rectangles, rectIdx, rendered>>

\* rectangle.render(area); then forEach moves to the next element.
StepRender ==
    /\ rectPc = "render"
    /\ rendered' = Append(rendered, area)
    /\ rectIdx' = rectIdx + 1
    /\ rectPc' = IF rectIdx + 1 > Len(rectangles) THEN "done" ELSE "setWidth"
    /\ UNCHANGED <<rectangles, area>>

\* C17: in the "Bad" hierarchy the area renderLareRectangles obtains after
\* setWidth(4), setHeight(5) is 20 for a Rectangle and 25 for a Square.
C17_AreaByClass ==
    \A i \in 1..Len(rendered) :
        rendered[i] = IF rectangles[i].cls = "Rectangle" THEN 20 ELSE 25

(***************************************************************************)
(* "Make objects have private members": the constructor-based Employee     *)
(* (Bad) and the closure-based makeEmployee (Good), src/index.js 1262-1289.*)
(***************************************************************************)

\* Names passed to new Employee(name) and makeEmployee(name).
Names == {"John Doe", "Jane Roe", "Ann Lee", "Bob Ray", "Cy Fox", "Di Kim"}

Str(s) == [t |-> "string", v |-> s]

\* No getName() call has been made yet.
NotCalled == [t |-> "none"]

VARIABLES
    employeeName,   \* the `name` argument of both factories
    badEmployee,    \* new Employee(name): own properties of the instance
    goodEmployee,   \* makeEmployee(name): own properties of the returned object
    badDeleted,     \* `delete employee.name` was executed on the Bad employee
    goodDeleted,    \* `delete employee.name` was executed on the Good employee
    badName,        \* result of the last getName() on the Bad employee
    goodName        \* result of the last getName() on the Good employee

employeeVars ==
    <<employeeName, badEmployee, goodEmployee, badDeleted, goodDeleted,
      badName, goodName>>

\* Reading obj[p]: an absent property reads as undefined (neither
\* Employee.prototype nor Object.prototype has a `name`).
ReadProp(obj, p) == IF obj[p] = Absent THEN Undefined ELSE obj[p]

\* delete obj[p].
DeleteProp(obj, p) == [obj EXCEPT ![p] = Absent]

\* Bad: const Employee = function(name) { this.name = name; }
NewEmployee(name) == [name |-> Str(name)]

\* Bad: Employee.prototype.getName: return this.name.
EmployeeGetName(this) == ReadProp(this, "name")

\* Good: makeEmployee(name) returns { getName() {...} }: no `name` property.
makeEmployee(name) == [name |-> Absent, getName |-> Fn("getName")]

\* A getName that reads the property of the object instead of the closure.
makeEmployeeGetNameOfThis(name, this) == ReadProp(this, "name")

\* Good: getName() { return name; } reads the closure parameter.
makeEmployeeGetName(name, this) == Str(name)

InitEmployee ==
    /\ employeeName \in Names
    /\ badEmployee = NewEmployee(employeeName)
    /\ goodEmployee = makeEmployee(employeeName)
    /\ badDeleted = FALSE
    /\ goodDeleted = FALSE
    /\ badName = NotCalled
    /\ goodName = NotCalled

\* The state of this example while another example runs.
IdleEmployee ==
    /\ employeeName = "John Doe"
    /\ badEmployee = NewEmployee(employeeName)
    /\ goodEmployee = makeEmployee(employeeName)
    /\ badDeleted = FALSE
    /\ goodDeleted = FALSE
    /\ badName = NotCalled
    /\ goodName = NotCalled

\* Bad: employee.getName()
BadGetName ==
    /\ badName' = EmployeeGetName(badEmployee)
    /\ UNCHANGED <<employeeName, badEmployee, goodEmployee, badDeleted,
                   goodDeleted, goodName>>

\* Bad: delete employee.name
BadDeleteName ==
    /\ badEmployee' = DeleteProp(badEmployee, "name")
    /\ badDeleted' = TRUE
    /\ UNCHANGED <<employeeName, goodEmployee, goodDeleted, badName, goodName>>

\* Good: employee.getName()
GoodGetName ==
    /\ goodName' = makeEmployeeGetName(employeeName, goodEmployee)
    /\ UNCHANGED <<employeeName, badEmployee, goodEmployee, badDeleted,
                   goodDeleted, badName>>

\* Good: delete employee.name
GoodDeleteName ==
    /\ goodEmployee' = DeleteProp(goodEmployee, "name")
    /\ goodDeleted' = TRUE
    /\ UNCHANGED <<employeeName, badEmployee, badDeleted, badName, goodName>>

\* C19: the Good employee's getName() returns name both before and after
\* `delete employee.name`; the Bad employee's getName() returns name before
\* the delete and undefined after it.
C19_GetNameAfterDelete ==
    [][/\ (GoodGetName => goodName' = Str(employeeName))
       /\ (BadGetName =>
              badName' = IF badDeleted THEN Undefined ELSE Str(employeeName))]_employeeVars

\* Both employees had their name deleted and getName() called afterwards.
C19_Witness ==
    /\ goodDeleted
    /\ badDeleted
    /\ goodName = Str(employeeName)
    /\ badName = Undefined

(***************************************************************************)
(* Concurrency: fetch the article, then write it to a file, in three       *)
(* styles (src/index.js 1851-1922): nested callbacks, a promise chain and  *)
(* the async function getCleanCodeArticle.  The outcomes of the request    *)
(* and of the write are inputs; the three programs run side by side on the *)
(* same inputs.                                                            *)
(***************************************************************************)

Versions == {"callback", "promise", "async"}

VARIABLES
    requestOk,     \* the request succeeds (FALSE: it fails with requestErr)
    writeOk,       \* the write succeeds (FALSE: it fails with writeErr)
    flowPc,        \* per version: what the program is waiting for / runs next
    flowErr,       \* promise version: the rejection travelling to .catch
    console,       \* per version: the console.error / console.log calls so far
    writeCalled    \* per version: writeFile("article.html", body) was called

flowVars == <<requestOk, writeOk, flowPc, flowErr, console, writeCalled>>

\* console.error(err)
ErrorEntry(err) == [ch |-> "error", msg |-> err]

\* console.log(msg)
LogEntry(msg) == [ch |-> "log", msg |-> msg]

\* A write callback that does not look at writeErr.
WriteCallbackUnchecked(ok) == LogEntry("File written")

\* Callback version, the writeFile callback:
\* if (writeErr) console.error(writeErr) else console.log("File written").
WriteCallback(ok) ==
    IF ~ok THEN ErrorEntry("writeErr") ELSE LogEntry("File written")

InitFlow ==
    /\ requestOk \in BOOLEAN
    /\ writeOk \in BOOLEAN
    /\ flowPc = [v \in Versions |-> "get"]
    /\ flowErr = "none"
    /\ console = [v \in Versions |-> <<>>]
    /\ writeCalled = [v \in Versions |-> FALSE]

\* The state of this example while another example runs: nothing started.
IdleFlow ==
    /\ requestOk = TRUE
    /\ writeOk = TRUE
    /\ flowPc = [v \in Versions |-> "get"]
    /\ flowErr = "none"
    /\ console = [v \in Versions |-> <<>>]
    /\ writeCalled = [v \in Versions |-> FALSE]

\* Callback version: the request completes and the get callback runs.
CallbackGetDone ==
    /\ flowPc["callback"] = "get"
    /\ IF ~requestOk
       THEN /\ console' = [console EXCEPT !["callback"] = Append(@, ErrorEntry("requestErr"))]
            /\ flowPc' = [flowPc EXCEPT !["callback"] = "done"]
            /\ UNCHANGED writeCalled
       ELSE /\ writeCalled' = [writeCalled EXCEPT !["callback"] = TRUE]
            /\ flowPc' = [flowPc EXCEPT !["callback"] = "write"]
            /\ UNCHANGED console
    /\ UNCHANGED <<requestOk, writeOk, flowErr>>

\* Callback version: the write completes and the writeFile callback runs.
CallbackWriteDone ==
    /\ flowPc["callback"] = "write"
    /\ console' = [console EXCEPT !["callback"] = Append(@, WriteCallback(writeOk))]
    /\ flowPc' = [flowPc EXCEPT !["callback"] = "done"]
    /\ UNCHANGED <<requestOk, writeOk, flowErr, writeCalled>>

\* Promise version: the promise of get(...) settles.
PromiseGetSettled ==
    /\ flowPc["promise"] = "get"
    /\ flowPc' = [flowPc EXCEPT !["promise"] = IF requestOk THEN "then1" ELSE "catch"]
    /\ flowErr' = IF requestOk THEN flowErr ELSE "requestErr"
    /\ UNCHANGED <<requestOk, writeOk, console, writeCalled>>

\* Promise version: .then(body => { return writeFile("article.html", body); })
PromiseThenWrite ==
    /\ flowPc["promise"] = "then1"
    /\ writeCalled' = [writeCalled EXCEPT !["promise"] = TRUE]
    /\ flowPc' = [flowPc EXCEPT !["promise"] = "write"]
    /\ UNCHANGED <<requestOk, writeOk, flowErr, console>>

\* Promise version: the promise returned by writeFile settles.
PromiseWriteSettled ==
    /\ flowPc["promise"] = "write"
    /\ flowPc' = [flowPc EXCEPT !["promise"] = IF writeOk THEN "then2" ELSE "catch"]
    /\ flowErr' = IF writeOk THEN flowErr ELSE "writeErr"
    /\ UNCHANGED <<requestOk, writeOk, console, writeCalled>>

\* Promise version: .then(() => { console.log("File written"); })
PromiseThenLog ==
    /\ flowPc["promise"] = "then2"
    /\ console' = [console EXCEPT !["promise"] = Append(@, LogEntry("File written"))]
    /\ flowPc' = [flowPc EXCEPT !["promise"] = "done"]
    /\ UNCHANGED <<requestOk, writeOk, flowErr, writeCalled>>

\* Promise version: .catch(err => { console.error(err); })
PromiseCatch ==
    /\ flowPc["promise"] = "catch"
    /\ console' = [console EXCEPT !["promise"] = Append(@, ErrorEntry(flowErr))]
    /\ flowPc' = [flowPc EXCEPT !["promise"] = "done"]
    /\ UNCHANGED <<requestOk, writeOk, flowErr, writeCalled>>

\* getCleanCodeArticle: `await get(...)` settles; on success the function
\* goes on to call writeFile, on failure it jumps to the catch block.
AsyncAwaitGet ==
    /\ flowPc["async"] = "get"
    /\ IF ~requestOk
       THEN /\ console' = [console EXCEPT !["async"] = Append(@, ErrorEntry("requestErr"))]
            /\ flowPc' = [flowPc EXCEPT !["async"] = "done"]
            /\ UNCHANGED writeCalled
       ELSE /\ writeCalled' = [writeCalled EXCEPT !["async"] = TRUE]
            /\ flowPc' = [flowPc EXCEPT !["async"] = "write"]
            /\ UNCHANGED console
    /\ UNCHANGED <<requestOk, writeOk, flowErr>>

\* getCleanCodeArticle: `await writeFile(...)` settles; on success
\* console.log("File written"), on failure the catch block.
AsyncAwaitWrite ==
    /\ flowPc["async"] = "write"
    /\ console' = [console EXCEPT !["async"] =
                      Append(@, IF writeOk THEN LogEntry("File written")
                                ELSE ErrorEntry("writeErr"))]
    /\ flowPc' = [flowPc EXCEPT !["async"] = "done"]
    /\ UNCHANGED <<requestOk, writeOk, flowErr, writeCalled>>

FlowDone(v) == flowPc[v] = "done"

FileWrittenLogged(v) ==
    \E i \in 1..Len(console[v]) : console[v][i] = LogEntry("File written")

\* C20: the three versions end with the same console output and the same
\* writeFile call for every combination of request and write results; "File
\* written" is logged only after both succeeded, writeFile is never called
\* when the request failed, and a failure of either step yields exactly one
\* console.error and no "File written".
C20_SameOutcome ==
    /\ \A v, w \in Versions :
          FlowDone(v) /\ FlowDone(w) =>
              /\ console[v] = console[w]
              /\ writeCalled[v] = writeCalled[w]
    /\ \A v \in Versions :
          /\ FileWrittenLogged(v) => requestOk /\ writeOk /\ writeCalled[v]
          /\ ~requestOk => ~writeCalled[v]
          /\ FlowDone(v) /\ ~(requestOk /\ writeOk) =>
                /\ Len(console[v]) = 1
                /\ console[v][1].ch = "error"
          /\ FlowDone(v) /\ requestOk /\ writeOk =>
                console[v] = <<LogEntry("File written")>>

\* All three versions have finished a run whose write failed.
C20_Witness ==
    /\ \A v \in Versions : FlowDone(v)
    /\ requestOk
    /\ ~writeOk
    /\ \A v \in Versions : console[v] = <<ErrorEntry("writeErr")>>

(***************************************************************************)
(* "Avoid Side Effects (part 1)": splitIntoFirstAndLastName, the version   *)
(* that overwrites the global `name` (Bad) and the version that takes the  *)
(* name as a parameter and returns the parts (Good), src/index.js 962-982. *)
(***************************************************************************)

\* Longest name string, in characters.
MaxNameLen == 3

\* Most calls of splitIntoFirstAndLastName made on one name.
MaxSplitCalls == 2

\* Characters of a name; " " is the separator passed to split.
Chars == {"R", "M", " "}

\* Strings are sequences of characters.
NameStrings == UNION {[1..n -> Chars] : n \in 0..MaxNameLen}

\* An array value.
Arr(elems) == [t |-> "array", v |-> elems]

VARIABLES
    originalName,    \* the string both examples start from
    globalName,      \* Bad: the global `let name`
    badSplitCalls,   \* Bad: calls of splitIntoFirstAndLastName() so far
    badSplitOutcome, \* Bad: how the last call ended: "none", "ok", "TypeError"
    constName,       \* Good: `const name`
    newName,         \* Good: `const newName`, the value the last call returned
    goodSplitCalls   \* Good: calls of splitIntoFirstAndLastName(name) so far

splitVars ==
    <<originalName, globalName, badSplitCalls, badSplitOutcome,
      constName, newName, goodSplitCalls>>

\* Position of the first sep in s, or 0.
RECURSIVE IndexOf(_, _, _)
IndexOf(s, sep, from) ==
    IF from > Len(s) THEN 0
    ELSE IF s[from] = sep THEN from
    ELSE IndexOf(s, sep, from + 1)

\* A split that stops at the first separator and drops the rest.
RECURSIVE SplitFirstOnly(_, _)
SplitFirstOnly(s, sep) ==
    LET i == IndexOf(s, sep, 1)
    IN  IF i = 0 THEN <<s>> ELSE <<SubSeq(s, 1, i - 1)>>

\* String.prototype.split(sep) for a one-character separator: the pieces
\* between separators, empty pieces included.
RECURSIVE Split(_, _)
Split(s, sep) ==
    LET i == IndexOf(s, sep, 1)
    IN  IF i = 0 THEN <<s>>
        ELSE <<SubSeq(s, 1, i - 1)>> \o Split(SubSeq(s, i + 1, Len(s)), sep)

\* Array.prototype.join(sep), used to state what split returns.
RECURSIVE Join(_, _)
Join(parts, sep) ==
    IF Len(parts) = 0 THEN <<>>
    ELSE IF Len(parts) = 1 THEN parts[1]
    ELSE parts[1] \o <<sep>> \o Join(Tail(parts), sep)

\* Good: function splitIntoFirstAndLastName(name) { return name.split(" "); }
splitIntoFirstAndLastName(name) == Arr(Split(name.v, " "))

InitSplit ==
    /\ originalName \in NameStrings
    /\ globalName = Str(originalName)
    /\ badSplitCalls = 0
    /\ badSplitOutcome = "none"
    /\ constName = Str(originalName)
    /\ newName = Undefined
    /\ goodSplitCalls = 0

\* The state of this example while another example runs.
IdleSplit ==
    /\ originalName = <<>>
    /\ globalName = Str(originalName)
    /\ badSplitCalls = 0
    /\ badSplitOutcome = "none"
    /\ constName = Str(originalName)
    /\ newName = Undefined
    /\ goodSplitCalls = 0

\* Bad: splitIntoFirstAndLastName(): name = name.split(" ").  An array has
\* no split method, so the call throws once `name` is an array.
BadSplitCall ==
    /\ badSplitCalls < MaxSplitCalls
    /\ badSplitCalls' = badSplitCalls + 1
    /\ IF globalName.t = "string"
       THEN /\ globalName' = splitIntoFirstAndLastName(globalName)
            /\ badSplitOutcome' = "ok"
       ELSE /\ globalName' = globalName
            /\ badSplitOutcome' = "TypeError"
    /\ UNCHANGED <<originalName, constName, newName, goodSplitCalls>>

\* Good: const newName = splitIntoFirstAndLastName(name);
GoodSplitCall ==
    /\ goodSplitCalls < MaxSplitCalls
    /\ goodSplitCalls' = goodSplitCalls + 1
    /\ newName' = splitIntoFirstAndLastName(constName)
    /\ UNCHANGED <<originalName, globalName, badSplitCalls, badSplitOutcome,
                   constName>>

\* parts is what s.split(" ") must be: no piece holds a separator and the
\* pieces joined by the separator give s back.
IsPartsOf(parts, s) ==
    /\ Len(parts) >= 1
    /\ \A i \in 1..Len(parts) : IndexOf(parts[i], " ", 1) = 0
    /\ Join(parts, " ") = s

\* C21: the Bad splitIntoFirstAndLastName replaces the global `name` by an
\* array, so a second call fails; the Good one can be called any number of
\* times, returns the array of parts each time and leaves `name` equal to
\* the original string.
C21_SideEffect ==
    /\ badSplitCalls >= 1 =>
          /\ globalName.t = "array"
          /\ IsPartsOf(globalName.v, originalName)
    /\ badSplitCalls = 1 => badSplitOutcome = "ok"
    /\ badSplitCalls >= 2 => badSplitOutcome = "TypeError"
    /\ constName = Str(originalName)
    /\ goodSplitCalls >= 1 =>
          /\ newName.t = "array"
          /\ IsPartsOf(newName.v, originalName)

\* Both versions were called twice on a name that has two parts.
C21_Witness ==
    /\ originalName = <<"R", " ", "M">>
    /\ badSplitCalls = 2
    /\ badSplitOutcome = "TypeError"
    /\ goodSplitCalls = 2
    /\ newName = Arr(<< <<"R">>, <<"M">> >>)
    /\ constName = Str(originalName)

(***************************************************************************)
(* Defaults: "Set default objects with Object.assign" (createMenu,         *)
(* src/index.js 898-940) and "Use default parameters instead of short      *)
(* circuiting" (createMicrobrewery, src/index.js 699-714).                 *)
(***************************************************************************)

Null == [t |-> "null"]

NaN == [t |-> "NaN"]

Bool(b) == [t |-> "boolean", v |-> b]

\* ToBoolean: undefined, null, false, 0, NaN and '' are falsy (an absent
\* property reads as undefined); every other value is truthy.
Truthy(val) ==
    CASE val.t \in {"undefined", "null", "NaN", "absent"} -> FALSE
      [] val.t = "boolean" -> val.v
      [] val.t = "number" -> val.v # 0
      [] val.t = "string" -> val.v # ""
      [] OTHER -> TRUE

\* a || b
Or(a, b) == IF Truthy(a) THEN a ELSE b

MenuKeys == {"title", "body", "buttonText", "cancellable"}

\* Values a caller's config holds under a key.
ConfigValues ==
    {Str("Order"), Str("Send"), Str(""), Null, Undefined, Bool(TRUE), Bool(FALSE)}

\* A config object: each key holds a value or is absent.
Configs == [MenuKeys -> ConfigValues \cup {Absent}]

\* Good: the menuConfig of the example, with no 'body' key.
MenuConfigExample ==
    [title |-> Str("Order"), body |-> Absent,
     buttonText |-> Str("Send"), cancellable |-> Bool(TRUE)]

\* Good: the first argument of Object.assign.
MenuDefaults ==
    [title |-> Str("Foo"), body |-> Str("Bar"),
     buttonText |-> Str("Baz"), cancellable |-> Bool(TRUE)]

\* A merge that keeps the caller's value only when it is truthy.
ObjectAssignTruthy(target, source) ==
    [k \in MenuKeys |-> Or(ReadProp(source, k), target[k])]

\* Object.assign(target, source): every own property of source, whatever its
\* value, overwrites the target's.
ObjectAssign(target, source) ==
    [k \in MenuKeys |-> IF source[k] # Absent THEN source[k] ELSE target[k]]

\* Good createMenu(config): returns Object.assign({defaults}, config).
createMenuGood(config) == ObjectAssign(MenuDefaults, config)

\* Bad createMenu(config): overwrites config key by key.
createMenuBad(config) ==
    [title |-> Or(ReadProp(config, "title"), Str("Foo")),
     body |-> Or(ReadProp(config, "body"), Str("Bar")),
     buttonText |-> Or(ReadProp(config, "buttonText"), Str("Baz")),
     cancellable |-> IF ReadProp(config, "cancellable") # Undefined
                     THEN config["cancellable"] ELSE Bool(TRUE)]

VARIABLES
    menuConfig,     \* Good: the caller's config, as passed to createMenu
    finalConfig,    \* Good: the object createMenu returned
    badMenuConfig,  \* Bad: the caller's config, overwritten by createMenu
    badMenuCalled   \* Bad: createMenu(menuConfig) has run

menuVars == <<menuConfig, finalConfig, badMenuConfig, badMenuCalled>>

InitMenu ==
    /\ menuConfig \in Configs
    /\ finalConfig = Undefined
    /\ badMenuConfig = menuConfig
    /\ badMenuCalled = FALSE

\* The state of this example while another example runs.
IdleMenu ==
    /\ menuConfig = MenuConfigExample
    /\ finalConfig = Undefined
    /\ badMenuConfig = menuConfig
    /\ badMenuCalled = FALSE

\* Good: createMenu(menuConfig)
GoodCreateMenu ==
    /\ finalConfig' = createMenuGood(menuConfig)
    /\ UNCHANGED <<menuConfig, badMenuConfig, badMenuCalled>>

\* Bad: createMenu(menuConfig)
BadCreateMenu ==
    /\ badMenuConfig' = createMenuBad(badMenuConfig)
    /\ badMenuCalled' = TRUE
    /\ UNCHANGED <<menuConfig, finalConfig>>

\* C22: the Good createMenu turns {title: 'Order', buttonText: 'Send',
\* cancellable: true} into {title: 'Order', body: 'Bar', buttonText: 'Send',
\* cancellable: true}; in general every key present in the caller's config
\* keeps the caller's value and every missing key takes its default.
C22_Defaults ==
    finalConfig # Undefined =>
        /\ \A k \in MenuKeys :
              /\ menuConfig[k] # Absent => finalConfig[k] = menuConfig[k]
              /\ menuConfig[k] = Absent => finalConfig[k] = MenuDefaults[k]
        /\ menuConfig = MenuConfigExample =>
              finalConfig = [title |-> Str("Order"), body |-> Str("Bar"),
                             buttonText |-> Str("Send"), cancellable |-> Bool(TRUE)]

\* createMenu has returned for a config whose title is present but null and
\* whose body is missing.
C22_Witness ==
    /\ finalConfig # Undefined
    /\ menuConfig["title"] = Null
    /\ menuConfig["body"] = Absent
    /\ finalConfig["title"] = Null
    /\ finalConfig["body"] = Str("Bar")

(***************************************************************************)
(* createMicrobrewery: `name || "Hisper Brew Co."` (Bad) against the       *)
(* default parameter `name = "Hisper Brew Co."` (Good), src/index.js       *)
(* 706-714.                                                                *)
(***************************************************************************)

\* Largest number passed as the name argument.
MaxBreweryNumber == 15

BreweryDefault == Str("Hisper Brew Co.")

\* Arguments createMicrobrewery is called with; undefined is also what a
\* call without an argument passes.
BreweryArgs ==
    {Undefined, Null, NaN, Bool(FALSE), Bool(TRUE), Fn("f")}
    \cup {Num(n) : n \in 0..MaxBreweryNumber}
    \cup {Str(""), Str("Hisper Brew Co."), Str("Ale House"), Str("0"),
          Str("false"), Str(" ")}

\* A default that also replaces null.
DefaultParameterNullish(arg, default) ==
    IF arg = Undefined \/ arg = Null THEN default ELSE arg

\* A default parameter: the default replaces the argument only when the
\* argument is undefined.
DefaultParameter(arg, default) ==
    IF arg = Undefined THEN default ELSE arg

\* Bad: const breweryName = name || "Hisper Brew Co.";
createMicrobreweryBad(name) == Or(name, BreweryDefault)

\* Good: function createMicrobrewery(name = "Hisper Brew Co.")
createMicrobreweryGood(name) == DefaultParameter(name, BreweryDefault)

VARIABLES
    breweryArg,       \* the argument of both calls
    badBreweryName,   \* Bad: `breweryName` after the call
    goodBreweryName   \* Good: `name` inside the function after the call

breweryVars == <<breweryArg, badBreweryName, goodBreweryName>>

InitBrewery ==
    /\ breweryArg \in BreweryArgs
    /\ badBreweryName = NotCalled
    /\ goodBreweryName = NotCalled

\* The state of this example while another example runs.
IdleBrewery ==
    /\ breweryArg = Undefined
    /\ badBreweryName = NotCalled
    /\ goodBreweryName = NotCalled

\* Bad: createMicrobrewery(arg)
BadCreateMicrobrewery ==
    /\ badBreweryName' = createMicrobreweryBad(breweryArg)
    /\ UNCHANGED <<breweryArg, goodBreweryName>>

\* Good: createMicrobrewery(arg)
GoodCreateMicrobrewery ==
    /\ goodBreweryName' = createMicrobreweryGood(breweryArg)
    /\ UNCHANGED <<breweryArg, badBreweryName>>

\* The falsy arguments other than undefined: '', false, null, 0 and NaN.
FalsyDefined == {Str(""), Bool(FALSE), Null, Num(0), NaN}

\* C23: the default-parameter version uses the default only for undefined and
\* keeps '', false, null, 0 and NaN, which the || version replaces by the
\* default; the two versions agree on undefined and on every truthy argument.
C23_DefaultParameter ==
    /\ goodBreweryName # NotCalled =>
          goodBreweryName =
              IF breweryArg = Undefined THEN BreweryDefault ELSE breweryArg
    /\ badBreweryName # NotCalled /\ breweryArg \in FalsyDefined =>
          badBreweryName = BreweryDefault
    /\ /\ goodBreweryName # NotCalled
       /\ badBreweryName # NotCalled
       /\ breweryArg \notin FalsyDefined
       => goodBreweryName = badBreweryName

\* Both versions were called with null: the Good one kept it, the Bad one
\* replaced it.
C23_Witness ==
    /\ breweryArg = Null
    /\ goodBreweryName = Null
    /\ badBreweryName = BreweryDefault

(***************************************************************************)
(* "Use method chaining", Good example: class Car whose setters return     *)
(* `this`, and the chain new Car(...).setColor("pink").save()              *)
(* (src/index.js 1397-1424).                                               *)
(***************************************************************************)

\* Longest chain of setter calls before save().
MaxChainLen == 4

CarMakes == {"Ford", "Honda"}

CarModels == {"F-150", "Accord"}

CarColors == {"red", "pink", "blue"}

\* Methods the Good class body defines: three setters.  It defines no save.
GoodCarMethods == {"setMake", "setModel", "setColor"}

\* new Car(make, model, color)
NewCar(make, model, color) == [make |-> make, model |-> model, color |-> color]

\* setMake(make) { this.make = make; return this; }
CarSetMake(this, make) == [this EXCEPT !.make = make]

\* setModel(model) { this.model = model; return this; }
CarSetModel(this, model) == [this EXCEPT !.model = model]

\* setColor(color) { this.color = color; return this; }
CarSetColor(this, color) == [this EXCEPT !.color = color]

VARIABLES
    car,          \* the instance made by new Car(...)
    chainValue,   \* what the chain expression evaluates to so far: "this",
                  \* or "undefined"
    chainPc,      \* "running", "saved" (save() returned) or "error" (TypeError)
    chainLen,     \* setter calls made in the chain
    lastValues    \* the last value given for each field (constructor or setter)

carVars == <<car, chainValue, chainPc, chainLen, lastValues>>

InitCar ==
    /\ car \in {NewCar(mk, md, c) : mk \in CarMakes, md \in CarModels, c \in CarColors}
    /\ chainValue = "this"
    /\ chainPc = "running"
    /\ chainLen = 0
    /\ lastValues = car

\* The state of this example while another example runs.
IdleCar ==
    /\ car = NewCar("Ford", "F-150", "red")
    /\ chainValue = "this"
    /\ chainPc = "running"
    /\ chainLen = 0
    /\ lastValues = car

\* <chain>.m(...): callable when the chain value is the instance and its
\* class defines m; otherwise the call throws a TypeError.
Callable(m) == chainValue = "this" /\ m \in GoodCarMethods

\* <chain>.setMake(make)
ChainSetMake ==
    /\ chainPc = "running"
    /\ chainLen < MaxChainLen
    /\ \E make \in CarMakes :
          IF Callable("setMake")
          THEN /\ car' = CarSetMake(car, make)
               /\ lastValues' = [lastValues EXCEPT !.make = make]
               /\ chainValue' = "this"
               /\ chainPc' = "running"
          ELSE /\ chainPc' = "error"
               /\ UNCHANGED <<car, lastValues, chainValue>>
    /\ chainLen' = chainLen + 1

\* <chain>.setModel(model)
ChainSetModel ==
    /\ chainPc = "running"
    /\ chainLen < MaxChainLen
    /\ \E model \in CarModels :
          IF Callable("setModel")
          THEN /\ car' = CarSetModel(car, model)
               /\ lastValues' = [lastValues EXCEPT !.model = model]
               /\ chainValue' = "this"
               /\ chainPc' = "running"
          ELSE /\ chainPc' = "error"
               /\ UNCHANGED <<car, lastValues, chainValue>>
    /\ chainLen' = chainLen + 1

\* <chain>.setColor(color)
ChainSetColor ==
    /\ chainPc = "running"
    /\ chainLen < MaxChainLen
    /\ \E color \in CarColors :
          IF Callable("setColor")
          THEN /\ car' = CarSetColor(car, color)
               /\ lastValues' = [lastValues EXCEPT !.color = color]
               /\ chainValue' = "this"
               /\ chainPc' = "running"
          ELSE /\ chainPc' = "error"
               /\ UNCHANGED <<car, lastValues, chainValue>>
    /\ chainLen' = chainLen + 1

\* <chain>.save(): the last call of the chain.
ChainSave ==
    /\ chainPc = "running"
    /\ chainPc' = IF Callable("save") THEN "saved" ELSE "error"
    /\ UNCHANGED <<car, chainValue, chainLen, lastValues>>

\* C24: every setter of the Good Car returns the instance, so any sequence of
\* setters followed by save() runs as one chain on new Car(...) and completes
\* without error, with the last value set for each field.
C24_ChainCompletes ==
    /\ chainPc # "error"
    /\ chainPc = "running" => chainValue = "this"
    /\ car = lastValues

(***************************************************************************)
(* Specifications: each example is an independent program.                 *)
(***************************************************************************)

vars == <<accountVars, lspVars, employeeVars, flowVars, splitVars, menuVars, breweryVars, carVars>>

\* What each example leaves alone: the state of the other examples.
notAccountVars == <<lspVars, employeeVars, flowVars, splitVars, menuVars, breweryVars, carVars>>

notLspVars == <<accountVars, employeeVars, flowVars, splitVars, menuVars, breweryVars, carVars>>

notEmployeeVars == <<accountVars, lspVars, flowVars, splitVars, menuVars, breweryVars, carVars>>

notFlowVars == <<accountVars, lspVars, employeeVars, splitVars, menuVars, breweryVars, carVars>>

notSplitVars == <<accountVars, lspVars, employeeVars, flowVars, menuVars, breweryVars, carVars>>

notMenuVars == <<accountVars, lspVars, employeeVars, flowVars, splitVars, breweryVars, carVars>>

notBreweryVars == <<accountVars, lspVars, employeeVars, flowVars, splitVars, menuVars, carVars>>

notCarVars == <<accountVars, lspVars, employeeVars, flowVars, splitVars, menuVars, breweryVars>>

InitAccount ==
    /\ balance = makeBankAccountGood
    /\ badAccount = makeBankAccountBad
    /\ returned = Undefined
    /\ goodAccount = makeBankAccountObject
    /\ lastSet = Num(0)
    /\ accessorsTouched = FALSE

Init ==
    /\ InitAccount
    /\ IdleLSP
    /\ IdleEmployee
    /\ IdleFlow
    /\ IdleSplit
    /\ IdleMenu
    /\ IdleBrewery
    /\ IdleCar

Next ==
    \/ SetBalance /\ UNCHANGED notAccountVars
    \/ GetBalance /\ UNCHANGED notAccountVars
    \/ AssignBadBalance /\ UNCHANGED notAccountVars
    \/ AssignGoodProp /\ UNCHANGED notAccountVars
    \/ DeleteGoodProp /\ UNCHANGED notAccountVars

Spec == Init /\ [][Next]_vars

InitLSPExample ==
    /\ InitLSP
    /\ InitAccount
    /\ IdleEmployee
    /\ IdleFlow
    /\ IdleSplit
    /\ IdleMenu
    /\ IdleBrewery
    /\ IdleCar

NextLSP ==
    \/ StepSetWidth /\ UNCHANGED notLspVars
    \/ StepSetHeight /\ UNCHANGED notLspVars
    \/ StepGetArea /\ UNCHANGED notLspVars
    \/ StepRender /\ UNCHANGED notLspVars

SpecLSP == InitLSPExample /\ [][NextLSP]_vars

InitEmployeeExample ==
    /\ InitEmployee
    /\ InitAccount
    /\ IdleLSP
    /\ IdleFlow
    /\ IdleSplit
    /\ IdleMenu
    /\ IdleBrewery
    /\ IdleCar

NextEmployee ==
    \/ BadGetName /\ UNCHANGED notEmployeeVars
    \/ BadDeleteName /\ UNCHANGED notEmployeeVars
    \/ GoodGetName /\ UNCHANGED notEmployeeVars
    \/ GoodDeleteName /\ UNCHANGED notEmployeeVars

SpecEmployee == InitEmployeeExample /\ [][NextEmployee]_vars

InitFlowExample ==
    /\ InitFlow
    /\ IdleSplit
    /\ IdleMenu
    /\ IdleBrewery
    /\ IdleCar
    /\ InitAccount
    /\ IdleLSP
    /\ IdleEmployee

NextFlow ==
    \/ CallbackGetDone /\ UNCHANGED notFlowVars
    \/ CallbackWriteDone /\ UNCHANGED notFlowVars
    \/ PromiseGetSettled /\ UNCHANGED notFlowVars
    \/ PromiseThenWrite /\ UNCHANGED notFlowVars
    \/ PromiseWriteSettled /\ UNCHANGED notFlowVars
    \/ PromiseThenLog /\ UNCHANGED notFlowVars
    \/ PromiseCatch /\ UNCHANGED notFlowVars
    \/ AsyncAwaitGet /\ UNCHANGED notFlowVars
    \/ AsyncAwaitWrite /\ UNCHANGED notFlowVars

SpecFlow == InitFlowExample /\ [][NextFlow]_vars

InitSplitExample ==
    /\ InitSplit
    /\ IdleMenu
    /\ IdleBrewery
    /\ IdleCar
    /\ InitAccount
    /\ IdleLSP
    /\ IdleEmployee
    /\ IdleFlow

NextSplit ==
    \/ BadSplitCall /\ UNCHANGED notSplitVars
    \/ GoodSplitCall /\ UNCHANGED notSplitVars

SpecSplit == InitSplitExample /\ [][NextSplit]_vars

InitMenuExample ==
    /\ InitMenu
    /\ IdleBrewery
    /\ IdleCar
    /\ InitAccount
    /\ IdleLSP
    /\ IdleEmployee
    /\ IdleFlow
    /\ IdleSplit

NextMenu ==
    \/ GoodCreateMenu /\ UNCHANGED notMenuVars
    \/ BadCreateMenu /\ UNCHANGED notMenuVars

SpecMenu == InitMenuExample /\ [][NextMenu]_vars

InitBreweryExample ==
    /\ InitBrewery
    /\ IdleCar
    /\ InitAccount
    /\ IdleLSP
    /\ IdleEmployee
    /\ IdleFlow
    /\ IdleSplit
    /\ IdleMenu

NextBrewery ==
    \/ BadCreateMicrobrewery /\ UNCHANGED notBreweryVars
    \/ GoodCreateMicrobrewery /\ UNCHANGED notBreweryVars

SpecBrewery == InitBreweryExample /\ [][NextBrewery]_vars

InitCarExample ==
    /\ InitCar
    /\ InitAccount
    /\ IdleLSP
    /\ IdleEmployee
    /\ IdleFlow
    /\ IdleSplit
    /\ IdleMenu
    /\ IdleBrewery

NextCar ==
    \/ ChainSetMake /\ UNCHANGED notCarVars
    \/ ChainSetModel /\ UNCHANGED notCarVars
    \/ ChainSetColor /\ UNCHANGED notCarVars
    \/ ChainSave /\ UNCHANGED notCarVars

SpecCar == InitCarExample /\ [][NextCar]_vars

TypeOK ==
    /\ balance \in Numbers \cup {Undefined}
    /\ badAccount \in [balance : Numbers]
    /\ returned \in Numbers \cup {Undefined, TypeError}
    /\ goodAccount \in [PropNames -> AssignValues \cup {Absent}]
    /\ lastSet \in Numbers
    /\ accessorsTouched \in BOOLEAN
====
